---- MODULE Spec2Model ----
(***************************************************************************)
(* Model of src/Cryo.py (3D Slicer module "Cryo"): the iceball             *)
(* probability model (GetDistances, GetDistances3), the scan limits        *)
(* (getLimits) and the voxel scan CryoLogic.run, together with the part of *)
(* the MRML scene that run reads and writes.                               *)
(*                                                                         *)
(* Arithmetic.  The source computes in IEEE doubles.  Here coordinates are *)
(* integers (physical units), square roots are fixed point (in-plane       *)
(* distances in tenths, the urethra distance in hundredths, so that its    *)
(* comparison with 5 is exact), the linear predictor "value"               *)
(* is an integer in units of 1e-5, and a probability is an integer in      *)
(* thousandths.  The logistic exp(v)/(1+exp(v)) is evaluated through the    *)
(* table LOGIT of logits of whole hundredths: a value in the bucket        *)
(* [k/100,(k+1)/100) is represented by its midpoint 10*k+5; the two        *)
(* saturated doubles 0.0 and 1.0 are 0 and 1000; the double overflow       *)
(* exp(v) = inf, which makes inf/(1+inf) a NaN, is the value NaN.          *)
(*                                                                         *)
(* Grid.  The source scans a 192 x 168 x 40 grid.  X_DIM, Y_DIM and        *)
(* SLICE_N are scaled down here; every literal of the source that is tied  *)
(* to the grid (191, 167, SLICE_N in getLimits, the array shapes, the       *)
(* image dimensions) is written in terms of them.                          *)
(***************************************************************************)
EXTENDS Integers, Sequences, FiniteSets, TLC

\* ---------------------------------------------------------------- bounds
\* src/Cryo.py:467,474  first image dimension (192 in the source)
X_DIM == 5
\* src/Cryo.py:467,474  second image dimension (168 in the source)
Y_DIM == 3
\* src/Cryo.py:11       SLICE_N (40 in the source)
SLICE_N == 2
\* calls of CryoLogic.run followed in one behaviour of Spec
MaxRuns == 1
\* calls of CryoLogic.run followed in one behaviour of SpecRepeat
MaxRepeat == 3
\* calls of run in a behaviour of SpecArgs
MaxArgRuns == 2

\* ------------------------------------------------------ program constants
\* src/Cryo.py:12   THRESHOLD = 0.8, in thousandths
THRESHOLD == 800
\* src/Cryo.py:311  urethra cutoff "> 5", in hundredths
URETHRA_CUTOFF == 500
\* src/Cryo.py:441  probe3[i,2] - 10.0
Z_OFFSET == 10
\* src/Cryo.py:330  margins of getLimits
MARGIN_IJ == 30
MARGIN_K == 5
\* src/Cryo.py:331-338  caps of getLimits
CAP_I == 190
CAP_J == 168
CAP_K == 19
FLOOR_K == 1
\* src/Cryo.py:359-361  rows of the probe matrices
PROBE_ROWS == 2

\* the double NaN: a code outside the thousandths 0..1000, compared only by =
NaN == -1
\* imageThresholdSliderWidget: its initial value 0.5 and its maximum 100, in
\* thousandths (src/Cryo.py:85-86)
SLIDER_DEFAULT == 500
SLIDER_MAXIMUM == 100000
SliderValues == {SLIDER_DEFAULT, SLIDER_MAXIMUM}

\* largest double exponent argument: exp(v) = inf for v > 709.78271 (1e-5)
EXP_OVERFLOW == 70978271
\* exp(v) rounds to 0.0 for v < -745.13321 (1e-5)
EXP_UNDERFLOW == -74513321
\* 1 + exp(v) = exp(v) in doubles for v >= 36.73681 (1e-5): the quotient is 1.0
EXP_ABSORB == 3673681

\* logit(k/100) in units of 1e-5, k = 50 .. 99
LOGIT == << 0, 4001, 8004, 12014, 16034, 20067, 24116, 28185, 32277, 36397,
            40547, 44731, 48955, 53222, 57536, 61904, 66329, 70819, 75377,
            80012, 84730, 89538, 94446, 99462, 104597, 109861, 115268,
            120831, 126567, 132493, 138629, 145001, 151635, 158563, 165823,
            173460, 181529, 190096, 199243, 209074, 219722, 231363, 244235,
            258669, 275154, 294444, 317805, 347610, 389182, 459512 >>

\* ------------------------------------------------------------- arithmetic
Abs(x) == IF x < 0 THEN -x ELSE x

\* truncation toward zero, as int() and the store into an integer array do
TruncDiv(a, b) == IF a >= 0 THEN a \div b ELSE -((-a) \div b)

RECURSIVE SqrtSearch(_, _, _)
SqrtSearch(n, lo, hi) ==
  IF lo >= hi THEN lo
  ELSE LET mid == (lo + hi + 1) \div 2
       IN IF mid * mid <= n THEN SqrtSearch(n, mid, hi)
                            ELSE SqrtSearch(n, lo, mid - 1)

\* floor(sqrt(n)), n < 2^30
ISqrt(n) == SqrtSearch(n, 0, IF n < 32768 THEN n ELSE 32768)

\* one more decimal digit of a square root: from the root a and the
\* remainder r = N - a*a to the root and remainder for 100*N
SqrtDigit(ar) ==
  LET a == ar[1]
      r == ar[2]
      d == CHOOSE e \in 0..9 :
             /\ 20 * a * e + e * e <= 100 * r
             /\ (e = 9 \/ 20 * a * (e + 1) + (e + 1) * (e + 1) > 100 * r)
  IN <<10 * a + d, 100 * r - (20 * a * d + d * d)>>

\* numpy.sqrt in tenths: floor(10*sqrt(n))
Sqrt10(n) == SqrtDigit(<<ISqrt(n), n - ISqrt(n) * ISqrt(n)>>)[1]

\* numpy.sqrt in hundredths: floor(100*sqrt(n))
Sqrt100(n) == SqrtDigit(SqrtDigit(<<ISqrt(n), n - ISqrt(n) * ISqrt(n)>>))[1]

\* floor(100 * exp(v)/(1+exp(v))) for 0 <= v, read off the table
Bucket(v) == 49 + Cardinality({n \in 1..Len(LOGIT) : LOGIT[n] <= v})

\* numpy.exp(value)/(1+numpy.exp(value)), value in 1e-5, result in thousandths
Logistic(value) ==
  IF value > EXP_OVERFLOW THEN NaN
  ELSE IF value >= EXP_ABSORB THEN 1000
  ELSE IF value < EXP_UNDERFLOW THEN 0
  ELSE IF value >= 0 THEN 10 * Bucket(value) + 5
  ELSE 10 * (99 - Bucket(-value)) + 5

\* ------------------------------------------------------ probability model
Sq(x) == x * x

\* numpy.sqrt(distance3[0] + distance3[1] + distance3[2]), in hundredths:
\* the distance from the sample point to the urethra point
UrethraDist(p, Uretra) ==
  Sqrt100(Sq(Uretra[1] - p[1]) + Sq(Uretra[2] - p[2]) + Sq(Uretra[3] - p[3]))

\* src/Cryo.py:268-276  "value" of GetDistances3, in 1e-5:
\* 4.1 - 0.006*suma - 0.0038*suma2 + 0.08*sqrt(d3), suma and suma2 over 4.0
Value3(Pr1, Pr2, Pr3, p, Uretra) ==
  LET d1xy == Sq(p[1] - Pr1[1]) + Sq(p[2] - Pr1[2])
      d2xy == Sq(Pr2[1] - p[1]) + Sq(Pr2[2] - p[2])
      d4xy == Sq(Pr3[1] - p[1]) + Sq(Pr3[2] - p[2])
      s    == Sqrt10(d1xy) + Sqrt10(d2xy) + Sqrt10(d4xy)
      suma == s * s                     \* hundredths, before the /4.0
      z    == Abs(p[3] - Pr1[3]) + Abs(p[3] - Pr2[3]) + Abs(p[3] - Pr3[3])
      suma2 == z * z                    \* units, before the /4.0
  IN 410000 - ((3 * suma) \div 2) - 95 * suma2 + 80 * UrethraDist(p, Uretra)

\* GetDistances3, src/Cryo.py:236-277
GetDistances3(Pr1, Pr2, Pr3, p, Uretra) ==
  Logistic(Value3(Pr1, Pr2, Pr3, p, Uretra))

\* src/Cryo.py:302-310  "value" of GetDistances, in 1e-5:
\* 4.1 - 0.006*suma - 0.0038*suma2 + 0.18*sqrt(d3)
Value2(Pr1, Pr2, p, Uretra) ==
  LET d1xy == Sq(p[1] - Pr1[1]) + Sq(p[2] - Pr1[2])
      d2xy == Sq(Pr2[1] - p[1]) + Sq(Pr2[2] - p[2])
      s    == Sqrt10(d1xy) + Sqrt10(d2xy)
      suma == s * s                     \* hundredths
      z    == Abs(p[3] - Pr1[3]) + Abs(p[3] - Pr2[3])
      suma2 == z * z                    \* units
  IN 410000 - 6 * suma - 380 * suma2 + 180 * UrethraDist(p, Uretra)

\* a cutoff that also lets the distance 5 itself through
OutsideCutoffInclusive(dist) == dist >= URETHRA_CUTOFF

\* src/Cryo.py:311  numpy.sqrt(...) > 5
OutsideCutoff(dist) == dist > URETHRA_CUTOFF

\* GetDistances, src/Cryo.py:279-314
GetDistances(Pr1, Pr2, p, Uretra) ==
  IF OutsideCutoff(UrethraDist(p, Uretra))
  THEN Logistic(Value2(Pr1, Pr2, p, Uretra))
  ELSE 0

\* ------------------------------------------------------------ coordinates
ZERO3 == <<0, 0, 0>>

\* vtkMatrix4x4.MultiplyDoublePoint, src/Cryo.py:325,491
MultiplyDoublePoint(M, v) ==
  [r \in 1..4 |-> M[r][1] * v[1] + M[r][2] * v[2] + M[r][3] * v[3] + M[r][4] * v[4]]

\* The input volumes: IJK-to-RAS matrix and its inverse.  The inverse has
\* fractional entries; it is kept as integer numerators over one denominator.
Volume1 ==
  [ijkToRas |-> << <<6, 0, 0, 0>>, <<0, 6, 0, 0>>, <<0, 0, 4, 0>>, <<0, 0, 0, 1>> >>,
   rasToIjk |-> [num |-> << <<2, 0, 0, 0>>, <<0, 2, 0, 0>>, <<0, 0, 3, 0>>, <<0, 0, 0, 12>> >>,
                 den |-> 12]]
Volumes == {Volume1}

\* ------------------------------------------------------------- getLimits
SeqMin(s) == CHOOSE x \in {s[n] : n \in 1..Len(s)} : \A n \in 1..Len(s) : x <= s[n]
SeqMax(s) == CHOOSE x \in {s[n] : n \in 1..Len(s)} : \A n \in 1..Len(s) : x >= s[n]

\* src/Cryo.py:323-328  limitX/Y/Z[i] = pos_temp[..] stored in integer arrays
ProbeIndex(probes, rasToijkMatrix, axis) ==
  [n \in 1..Len(probes) |->
     TruncDiv(MultiplyDoublePoint(rasToijkMatrix.num,
                <<probes[n][1], probes[n][2], probes[n][3], 1>>)[axis],
              rasToijkMatrix.den)]

\* src/Cryo.py:330-338  the limits computed from the probes
ComputedLimits(probes, rasToijkMatrix) ==
  LET limitX == ProbeIndex(probes, rasToijkMatrix, 1)
      limitY == ProbeIndex(probes, rasToijkMatrix, 2)
      limitZ == ProbeIndex(probes, rasToijkMatrix, 3)
      l0 == << SeqMin(limitX) - MARGIN_IJ, SeqMax(limitX) + MARGIN_IJ,
               SeqMin(limitY) - MARGIN_IJ, SeqMax(limitY) + MARGIN_IJ,
               SeqMin(limitZ) - MARGIN_K,  SeqMax(limitZ) + MARGIN_K >>
      l1 == IF l0[2] >= CAP_I THEN [l0 EXCEPT ![2] = CAP_I] ELSE l0
      l2 == IF l1[4] >= CAP_J THEN [l1 EXCEPT ![4] = CAP_J] ELSE l1
      l3 == IF l2[6] >= CAP_K THEN [l2 EXCEPT ![6] = CAP_K] ELSE l2
      l4 == IF l3[5] < FLOOR_K THEN [l3 EXCEPT ![5] = FLOOR_K] ELSE l3
  IN l4

\* src/Cryo.py:316-347  getLimits: the computed limits are overwritten by the
\* "TEST FOR HEAT MAP" block (0,191,0,167,0,SLICE_N in the source)
getLimits(probes, rasToijkMatrix) ==
  LET lim == ComputedLimits(probes, rasToijkMatrix)
  IN [lim EXCEPT ![1] = 0, ![2] = X_DIM - 1,
                 ![3] = 0, ![4] = Y_DIM - 1,
                 ![5] = 0, ![6] = SLICE_N]

\* ------------------------------------------------------------------ scene
\* A node of the MRML scene: markups nodes carry points, volume nodes an array.
Node(cls, name, pts, arr) == [cls |-> cls, name |-> name, pts |-> pts, arr |-> arr]
Fiducials(name, pts) == Node("vtkMRMLMarkupsFiducialNode", name, pts, <<>>)

NodesNamed(sc, name) == {n \in 1..Len(sc) : sc[n].name = name}
HasNode(sc, name) == NodesNamed(sc, name) # {}

\* a lookup that returns the first node of that name instead
getNodeFirst(sc, name) ==
  sc[CHOOSE n \in NodesNamed(sc, name) : \A m \in NodesNamed(sc, name) : n <= m]

\* slicer.util.getNode(name): getNodes keys its result by node name, so of
\* several nodes with one name the last one in the scene is returned
\* (src/Cryo.py:365,398,407,435)
getNode(sc, name) ==
  sc[CHOOSE n \in NodesNamed(sc, name) : \A m \in NodesNamed(sc, name) : m <= n]

\* fidList.GetNthFiducialPosition(n, ras): n counts from 0.  For a missing
\* fiducial the call raises nothing; depending on the Slicer build it leaves
\* ras as it was (stale) or fills it with zeros.
GetNthFiducialPosition(node, n, ras, stale) ==
  IF n < Len(node.pts) THEN node.pts[n + 1]
  ELSE IF stale THEN ras ELSE ZERO3

\* Urethra marker lists the user can place (src/Cryo.py:142-154), as x,y,z
MarkersA == << <<18, 6, 0>>, <<18, 6, 4>> >>
MarkersB == << <<8, 10, 0>>, <<12, 10, 4>> >>
MarkersFar == << <<4000, 0, 0>>, <<4000, 0, 4>> >>
MarkersOne == << <<18, 6, 0>> >>
MarkerLists == {MarkersA, MarkersB, MarkersFar, MarkersOne}

\* Fiducial lists "IntraOpTargets" (probe tips)
Targets1 == << <<0, 0, 0>> >>
Targets2 == << <<0, 0, 0>>, <<6, 0, 4>> >>
Targets3 == << <<0, 0, 0>>, <<6, 0, 4>>, <<0, 6, 2>> >>
TargetLists == {Targets1, Targets2, Targets3}

\* Fiducial list "probe3"
Probe3Pts == << <<0, 6, 2>> >>

\* CubicSpline(z, x, bc_type='natural') raises ValueError unless there are
\* at least two knots with strictly increasing z (src/Cryo.py:381,385)
CubicSplineOK(m) ==
  /\ Len(m) >= 2
  /\ \A n \in 1..(Len(m) - 1) : m[n][3] < m[n + 1][3]

\* src/Cryo.py:381-393  the resampled curve, SLICE_N points.  The marker lists
\* of this model have two knots, where the natural spline is the chord:
\* z_new = linspace(z[0], z[last], SLICE_N), x_new = f(z_new), y_new = f2(z_new)
Resample(m) ==
  LET a == m[1]
      b == m[Len(m)]
  IN [n \in 1..SLICE_N |->
        << a[1] + TruncDiv((b[1] - a[1]) * (n - 1), SLICE_N - 1),
           a[2] + TruncDiv((b[2] - a[2]) * (n - 1), SLICE_N - 1),
           a[3] + TruncDiv((b[3] - a[3]) * (n - 1), SLICE_N - 1) >>]

\* ------------------------------------------------------------------ state
VARIABLES
  scene,        \* slicer.mrmlScene: the sequence of its nodes
  stale,        \* whether GetNthFiducialPosition leaves ras stale (build)
  pc,           \* "idle" (no run in progress) or "scan" (inside the loops)
  status,       \* how the last call of run ended: "none", "ok" or the error
  nruns,        \* calls of run made so far
  inp,          \* the markers, targets, probe3 and volume the run was given
  args,         \* the imageThreshold and enableScreenshots the run was given
  nofProbes, probe1, probe2, probe3, UretraMatrix,   \* locals of run
  lim, ijk,     \* scan limits and loop position (i, j, k)
  img2, img3,   \* raw-probability and mask arrays, indexed <<k, j, i>>
  imageData,    \* vtkImageData scalars, indexed <<x, y, z>>
  calls,        \* the evaluations of the model made by this run, in order
  lastWrite,    \* index passed to the last SetScalarComponentFromFloat
  runs,         \* inputs and arrays of every completed run
  fx            \* inputs and result of one stand-alone function call

vars == << scene, stale, pc, status, nruns, inp, args, nofProbes, probe1, probe2,
           probe3, UretraMatrix, lim, ijk, img2, img3, imageData, calls,
           lastWrite, runs, fx >>

sceneVars == << scene, stale >>
runVars == << pc, status, nruns, inp, args, nofProbes, probe1, probe2, probe3,
              UretraMatrix, lim, ijk, img2, img3, imageData, calls,
              lastWrite, runs >>
localVars == << inp, args, nofProbes, probe1, probe2, probe3, UretraMatrix, lim, ijk,
                img2, img3, imageData, calls, lastWrite >>

\* index sets of the buffers
ArrayShape == (0..(SLICE_N - 1)) \X (0..(Y_DIM - 1)) \X (0..(X_DIM - 1))
ImageExtent == (0..(X_DIM - 1)) \X (0..(Y_DIM - 1)) \X (0..(SLICE_N - 1))

\* numpy.zeros([nOfSlices, 168, 192]), src/Cryo.py:474-476
Zeros == [c \in ArrayShape |-> 0]
\* imageData.AllocateScalars, src/Cryo.py:483-485: memory is not cleared
UNINIT == "uninitialized"
Allocated == [c \in ImageExtent |-> UNINIT]

\* numpy.matrix([[0,0,0],[0,0,0]]), src/Cryo.py:359-361
ZeroProbe == [r \in 1..PROBE_ROWS |-> ZERO3]

NoInput == [markers |-> <<>>, targets |-> <<>>, probe3 |-> <<>>, volume |-> <<>>]

\* the widget's defaults, src/Cryo.py:86,94
NoArgs == [imageThreshold |-> SLIDER_DEFAULT, enableScreenshots |-> FALSE]

InitLocals ==
  /\ inp = NoInput
  /\ args = NoArgs
  /\ nofProbes = 2
  /\ probe1 = ZeroProbe /\ probe2 = ZeroProbe /\ probe3 = ZeroProbe
  /\ UretraMatrix = <<>>
  /\ lim = <<0, 0, 0, 0, 0, 0>>
  /\ ijk = <<0, 0, 0>>
  /\ img2 = Zeros /\ img3 = Zeros
  /\ imageData = Allocated
  /\ calls = <<>>
  /\ lastWrite = <<>>

\* the locals of run do not outlive the call
ResetLocals ==
  /\ inp' = NoInput
  /\ args' = NoArgs
  /\ nofProbes' = 2
  /\ probe1' = ZeroProbe /\ probe2' = ZeroProbe /\ probe3' = ZeroProbe
  /\ UretraMatrix' = <<>>
  /\ lim' = <<0, 0, 0, 0, 0, 0>>
  /\ ijk' = <<0, 0, 0>>
  /\ img2' = Zeros /\ img3' = Zeros
  /\ imageData' = Allocated
  /\ calls' = <<>>
  /\ lastWrite' = <<>>

NoCall == [fn |-> "none"]

Init ==
  /\ scene = <<>>
  /\ stale \in BOOLEAN
  /\ pc = "idle"
  /\ status = "none"
  /\ nruns = 0
  /\ runs = {}
  /\ fx = NoCall
  /\ InitLocals

\* ---------------------------------------------------------- user actions
\* replace the points of the node called name, or add the node
SetPoints(sc, name, pts) ==
  IF HasNode(sc, name)
  THEN [n \in 1..Len(sc) |-> IF sc[n].name = name THEN Fiducials(name, pts) ELSE sc[n]]
  ELSE Append(sc, Fiducials(name, pts))

\* onUrethraButton and the placement of the markers, src/Cryo.py:142-154
PlaceUrethraPoints(m) ==
  /\ pc = "idle"
  /\ IF HasNode(scene, "urethra_points") THEN getNode(scene, "urethra_points").pts # m ELSE TRUE
  /\ scene' = SetPoints(scene, "urethra_points", m)
  /\ UNCHANGED << stale, runVars, fx >>

\* the probe tips arrive as the fiducial list "IntraOpTargets", src/Cryo.py:407
LoadTargets(t) ==
  /\ pc = "idle"
  /\ IF HasNode(scene, "IntraOpTargets") THEN getNode(scene, "IntraOpTargets").pts # t ELSE TRUE
  /\ scene' = SetPoints(scene, "IntraOpTargets", t)
  /\ UNCHANGED << stale, runVars, fx >>

\* the optional third probe, the fiducial list "probe3", src/Cryo.py:435
AddProbe3 ==
  /\ pc = "idle"
  /\ ~HasNode(scene, "probe3")
  /\ scene' = Append(scene, Fiducials("probe3", Probe3Pts))
  /\ UNCHANGED << stale, runVars, fx >>

\* slicer.mrmlScene.Clear(0), src/Cryo.py:550
Clear ==
  /\ pc = "idle"
  /\ scene # <<>>
  /\ scene' = <<>>
  /\ UNCHANGED << stale, runVars, fx >>

\* -------------------------------------------------------------------- run
\* src/Cryo.py:433-444  the try block that reads the third probe.  The loop
\* runs numFids4 = fidList2.GetNumberOfFiducials() times, fidList2 being
\* "IntraOpTargets"; storing row i >= PROBE_ROWS raises IndexError, and the
\* bare except turns any exception into nofProbes = 2.
Probe3Rows(sc, numFids4, st) ==
  IF ~HasNode(sc, "probe3") THEN ZeroProbe
  ELSE [r \in 1..PROBE_ROWS |->
          IF r <= numFids4
          THEN LET ras == GetNthFiducialPosition(getNode(sc, "probe3"), r - 1, ZERO3, st)
               IN <<ras[1], ras[2], ras[3] - Z_OFFSET>>
          ELSE ZERO3]

Probe3Raises(sc, numFids4) == ~HasNode(sc, "probe3") \/ numFids4 > PROBE_ROWS

NofProbes(sc, numFids4) == IF Probe3Raises(sc, numFids4) THEN 2 ELSE 3

\* src/Cryo.py:398-404  UretraMatrix[i,] = ras for the points of 'urethra'
\* (the rows past the node's points stay zero and are not read by the scan)
FillUretraMatrix(node, st) ==
  [n \in 1..Len(node.pts) |-> GetNthFiducialPosition(node, n - 1, ZERO3, st)]

\* a call of run that ends in an exception before the scan
Raise(sc, e) ==
  /\ scene' = sc
  /\ status' = e
  /\ pc' = "idle"
  /\ ResetLocals
  /\ UNCHANGED << stale, runs, fx >>

\* onApplyButton -> run, src/Cryo.py:136-140, 349-485: everything up to the
\* loops.  The debug table of src/Cryo.py:452-456 is taken to be writable.
RunBegin(inputVolume, imageThreshold, enableScreenshots) ==
  /\ pc = "idle"
  /\ nruns' = nruns + 1
  /\ IF ~HasNode(scene, "urethra_points")
     THEN Raise(scene, "MRMLNodeNotFoundException")
     ELSE
     LET markers == getNode(scene, "urethra_points").pts IN
     IF ~CubicSplineOK(markers)
     THEN Raise(scene, "ValueError: CubicSpline")
     ELSE
     LET sc1 == Append(scene, Fiducials("urethra", Resample(markers))) IN
     IF ~HasNode(sc1, "IntraOpTargets")
     THEN Raise(sc1, "MRMLNodeNotFoundException")
     ELSE
     LET fidList2 == getNode(sc1, "IntraOpTargets")
         ras1 == GetNthFiducialPosition(fidList2, 0, ZERO3, stale)
         ras2 == GetNthFiducialPosition(fidList2, 1, ras1, stale)
         numFids4 == Len(fidList2.pts)
     IN
       /\ scene' = sc1
       /\ inp' = [markers |-> markers, targets |-> fidList2.pts,
                  probe3 |-> IF HasNode(sc1, "probe3")
                             THEN getNode(sc1, "probe3").pts ELSE <<>>,
                  volume |-> inputVolume]
       /\ args' = [imageThreshold |-> imageThreshold,
                   enableScreenshots |-> enableScreenshots]
       /\ UretraMatrix' = FillUretraMatrix(getNode(sc1, "urethra"), stale)
       /\ probe1' = [ZeroProbe EXCEPT ![1] = ras1]
       /\ probe2' = [ZeroProbe EXCEPT ![1] = ras2]
       /\ probe3' = Probe3Rows(sc1, numFids4, stale)
       /\ nofProbes' = NofProbes(sc1, numFids4)
       /\ img2' = Zeros /\ img3' = Zeros
       /\ imageData' = Allocated
       /\ lim' = getLimits(<<ras1, ras2>>, inputVolume.rasToIjk)
       /\ ijk' = <<lim'[1], lim'[3], lim'[5]>>
       /\ calls' = <<>>
       /\ lastWrite' = <<>>
       /\ status' = "running"
       /\ pc' = "scan"
       /\ UNCHANGED << stale, runs, fx >>

\* the three nested range() loops, src/Cryo.py:488-490 (upper ends excluded)
InLoops(v, l) == v[1] < l[2] /\ v[2] < l[4] /\ v[3] < l[6]
NextVoxel(v, l) ==
  IF v[3] + 1 < l[6] THEN <<v[1], v[2], v[3] + 1>>
  ELSE IF v[2] + 1 < l[4] THEN <<v[1], v[2] + 1, l[5]>>
  ELSE <<v[1] + 1, l[3], l[5]>>

\* int(10.0*prob), src/Cryo.py:500 (prob in thousandths)
IntOf10(prob) == (10 * prob) \div 1000

\* the probability evaluated for voxel v, src/Cryo.py:491-499
Evaluate(v, n, P1, P2, P3, U, vol) ==
  LET p4 == MultiplyDoublePoint(vol.ijkToRas, <<v[1], v[2], v[3], 1>>)
      p == <<p4[1], p4[2], p4[3]>>
      Pr1 == P1[1]
      Pr2 == P2[1]
      Pr3 == P3[1]
      Uretra == U[v[3] + 1]
  IN IF n = 3 THEN [fn |-> "GetDistances3", prob |-> GetDistances3(Pr1, Pr2, Pr3, p, Uretra)]
              ELSE [fn |-> "GetDistances", prob |-> GetDistances(Pr1, Pr2, p, Uretra)]

\* vtkImageData.SetScalarComponentFromFloat(x, y, z, 0, value): an index
\* outside the extent is reported by VTK and nothing is stored
SetScalarComponentFromFloat(img, x, y, z, value) ==
  IF <<x, y, z>> \in ImageExtent THEN [img EXCEPT ![<<x, y, z>>] = value] ELSE img

\* a threshold applied to the scaled value 10*prob instead of prob
ThresholdScaled(img, k, j, i, prob) ==
  IF 10 * prob > THRESHOLD THEN [img EXCEPT ![<<k, j, i>>] = 1] ELSE img

\* src/Cryo.py:504-506  if prob > THRESHOLD: img3[k, j, i] = 1.0
Threshold(img, k, j, i, prob) ==
  IF prob > THRESHOLD THEN [img EXCEPT ![<<k, j, i>>] = 1] ELSE img

\* an exception inside the loops ends the call; its locals are gone
Abort(e) ==
  /\ status' = e
  /\ pc' = "idle"
  /\ ResetLocals

\* a loop body that cuts the mask at the imageThreshold argument
ScanStepSliderCut ==
  /\ pc = "scan"
  /\ InLoops(ijk, lim)
  /\ LET i == ijk[1]
         j == ijk[2]
         k == ijk[3]
         e == Evaluate(ijk, nofProbes, probe1, probe2, probe3, UretraMatrix, inp.volume)
         prob == e.prob
     IN IF prob = NaN
        THEN Abort("ValueError: int(nan)")
        ELSE IF <<k, j, i>> \notin ArrayShape
        THEN Abort("IndexError")
        ELSE /\ calls' = Append(calls, [ijk |-> ijk, fn |-> e.fn, prob |-> prob])
             /\ imageData' = SetScalarComponentFromFloat(imageData, k, j, i, IntOf10(prob))
             /\ lastWrite' = <<k, j, i>>
             /\ img2' = [img2 EXCEPT ![<<k, j, i>>] = 10 * prob]
             /\ img3' = IF prob > args.imageThreshold
                        THEN [img3 EXCEPT ![<<k, j, i>>] = 1] ELSE img3
             /\ ijk' = NextVoxel(ijk, lim)
             /\ UNCHANGED << pc, status, inp, args, nofProbes, probe1, probe2, probe3,
                             UretraMatrix, lim >>
  /\ UNCHANGED << sceneVars, nruns, runs, fx >>

\* one pass through the loop body, src/Cryo.py:491-506
ScanStep ==
  /\ pc = "scan"
  /\ InLoops(ijk, lim)
  /\ LET i == ijk[1]
         j == ijk[2]
         k == ijk[3]
         e == Evaluate(ijk, nofProbes, probe1, probe2, probe3, UretraMatrix, inp.volume)
         prob == e.prob
     IN IF prob = NaN
        THEN Abort("ValueError: int(nan)")
        ELSE IF <<k, j, i>> \notin ArrayShape
        THEN Abort("IndexError")
        ELSE /\ calls' = Append(calls, [ijk |-> ijk, fn |-> e.fn, prob |-> prob])
             /\ imageData' = SetScalarComponentFromFloat(imageData, k, j, i, IntOf10(prob))
             /\ lastWrite' = <<k, j, i>>
             /\ img2' = [img2 EXCEPT ![<<k, j, i>>] = 10 * prob]
             /\ img3' = Threshold(img3, k, j, i, prob)
             /\ ijk' = NextVoxel(ijk, lim)
             /\ UNCHANGED << pc, status, inp, args, nofProbes, probe1, probe2, probe3,
                             UretraMatrix, lim >>
  /\ UNCHANGED << sceneVars, nruns, runs, fx >>

\* src/Cryo.py:510-537  the arrays become volume nodes of the scene
RunFinish ==
  /\ pc = "scan"
  /\ ~InLoops(ijk, lim)
  /\ scene' = scene \o
       << Node("vtkMRMLLabelMapVolumeNode", "predictedIceball", <<>>, img2),
          Node("vtkMRMLScalarVolumeNode", "", <<>>, img2),
          Node("vtkMRMLLabelMapVolumeNode", "", <<>>, img3),
          Node("vtkMRMLScalarVolumeDisplayNode", "", <<>>, <<>>) >>
  /\ runs' = runs \cup {[inp |-> inp, args |-> args, mask |-> img3, prob |-> img2]}
  /\ status' = "ok"
  /\ pc' = "idle"
  /\ ResetLocals
  /\ UNCHANGED << stale, nruns, fx >>

Next ==
  \/ \E m \in MarkerLists : PlaceUrethraPoints(m)
  \/ \E t \in TargetLists : LoadTargets(t)
  \/ AddProbe3
  \/ Clear
  \/ \E v \in Volumes : nruns < MaxRuns /\ RunBegin(v, SLIDER_DEFAULT, FALSE)
  \/ ScanStep
  \/ RunFinish

Spec == Init /\ [][Next]_vars

\* ------------------------------------------------------ repeated runs
\* Runs repeated in one scene: the probe tips are loaded once, the urethra
\* markers are replaced between runs, the scene may be cleared.
InitRepeat ==
  /\ scene = << Fiducials("IntraOpTargets", Targets2) >>
  /\ stale \in BOOLEAN
  /\ pc = "idle"
  /\ status = "none"
  /\ nruns = 0
  /\ runs = {}
  /\ fx = NoCall
  /\ InitLocals

NextRepeat ==
  \/ \E m \in {MarkersA, MarkersB} : PlaceUrethraPoints(m)
  \/ LoadTargets(Targets2)
  \/ Clear
  \/ \E v \in Volumes : nruns < MaxRepeat /\ RunBegin(v, SLIDER_DEFAULT, FALSE)
  \/ ScanStep
  \/ RunFinish

SpecRepeat == InitRepeat /\ [][NextRepeat]_vars

\* ------------------------------------------- runs with other widget settings
\* Apply pressed repeatedly in a scene that holds the markers and two probe
\* tips, with the slider and the check box set anew before each run; the
\* third probe may be added between runs.
InitArgs ==
  /\ scene = << Fiducials("urethra_points", MarkersA),
                Fiducials("IntraOpTargets", Targets2) >>
  /\ stale \in BOOLEAN
  /\ pc = "idle"
  /\ status = "none"
  /\ nruns = 0
  /\ runs = {}
  /\ fx = NoCall
  /\ InitLocals

NextArgs ==
  \/ AddProbe3
  \/ \E v \in Volumes, t \in SliderValues, f \in BOOLEAN :
       nruns < MaxArgRuns /\ RunBegin(v, t, f)
  \/ ScanStep
  \/ RunFinish

SpecArgs == InitArgs /\ [][NextArgs]_vars

\* ------------------------------------------------- stand-alone function calls
\* Arguments for GetDistances / GetDistances3
ProbePoints1 == { <<0, 0, 0>> }
ProbePoints2 == { <<6, 0, 4>>, <<300, 0, 0>> }
ProbePoints3 == { <<0, 6, -8>>, <<0, 0, 0>> }
SamplePoints == { <<0, 0, 0>>, <<3, 0, 2>>, <<12, 6, 0>>, <<18, 6, 4>>,
                  <<40, 0, 0>>, <<400, 0, 0>> }
UrethraPoints == { <<0, 0, 0>>, <<3, 4, 0>>, <<3, 4, 1>>, <<18, 6, 0>>,
                   <<60, 0, 0>>, <<4000, 0, 0>>, <<9000, 0, 0>> }

\* Arguments for getLimits: probe tips and RAS-to-IJK matrices
Identity4 == [num |-> << <<1, 0, 0, 0>>, <<0, 1, 0, 0>>, <<0, 0, 1, 0>>, <<0, 0, 0, 1>> >>,
              den |-> 1]
TipPoints == { <<0, 0, 0>>, <<100, 80, 10>>, <<110, 90, 12>>, <<170, 150, 16>>,
               <<600, 480, 40>> }

ModelArgs ==
  { [fn |-> "args", Pr1 |-> a, Pr2 |-> b, Pr3 |-> c, p |-> q, Uretra |-> u,
     probes |-> <<>>, matrix |-> <<>>, result |-> <<>>] :
      a \in ProbePoints1, b \in ProbePoints2, c \in ProbePoints3,
      q \in SamplePoints, u \in UrethraPoints }

LimitArgs ==
  { [fn |-> "args", Pr1 |-> <<>>, Pr2 |-> <<>>, Pr3 |-> <<>>, p |-> <<>>, Uretra |-> <<>>,
     probes |-> <<a, b>>, matrix |-> m, result |-> <<>>] :
      a \in TipPoints, b \in TipPoints, m \in {Identity4, Volume1.rasToIjk} }

InitCalls ==
  /\ fx \in ModelArgs \cup LimitArgs
  /\ scene = <<>>
  /\ stale = FALSE
  /\ pc = "idle"
  /\ status = "none"
  /\ nruns = 0
  /\ runs = {}
  /\ InitLocals

CallGetDistances ==
  /\ fx.fn = "args" /\ fx.p # <<>>
  /\ fx' = [fx EXCEPT !.fn = "GetDistances",
                      !.result = GetDistances(fx.Pr1, fx.Pr2, fx.p, fx.Uretra)]
  /\ UNCHANGED << sceneVars, runVars >>

CallGetDistances3 ==
  /\ fx.fn = "args" /\ fx.p # <<>>
  /\ fx' = [fx EXCEPT !.fn = "GetDistances3",
                      !.result = GetDistances3(fx.Pr1, fx.Pr2, fx.Pr3, fx.p, fx.Uretra)]
  /\ UNCHANGED << sceneVars, runVars >>

CallGetLimits ==
  /\ fx.fn = "args" /\ fx.probes # <<>>
  /\ fx' = [fx EXCEPT !.fn = "getLimits",
                      !.result = getLimits(fx.probes, fx.matrix)]
  /\ UNCHANGED << sceneVars, runVars >>

NextCalls ==
  \/ CallGetDistances
  \/ CallGetDistances3
  \/ CallGetLimits

SpecCalls == InitCalls /\ [][NextCalls]_vars

\* ------------------------------------------------------------- properties
\* the scan has left its loops and run is about to hand over its arrays
Completed == pc = "scan" /\ ~InLoops(ijk, lim)

\* the voxels (i, j, k) evaluated so far by the run in progress
Visited == {calls[n].ijk : n \in 1..Len(calls)}

\* the cell <<k, j, i>> that the loop body addresses for voxel (i, j, k)
Cell(v) == <<v[3], v[2], v[1]>>

\* exact squared distance between two points
SqDist(a, b) == Sq(a[1] - b[1]) + Sq(a[2] - b[2]) + Sq(a[3] - b[3])

Min2(a, b) == IF a <= b THEN a ELSE b
Max2(a, b) == IF a >= b THEN a ELSE b

\* round(10*prob) to the nearest integer (prob in thousandths)
RoundOf10(prob) == (10 * prob + 500) \div 1000

\* C1: every index the loop body writes with lies inside the buffer it
\* addresses: the arrays of shape (SLICE_N, Y_DIM, X_DIM) and the image of
\* dimensions X_DIM x Y_DIM x SLICE_N, both addressed with (k, j, i).
C1_WritesInsideBuffers ==
  lastWrite # <<>> => (lastWrite \in ArrayShape /\ lastWrite \in ImageExtent)

\* C2: throughout the scan, and so when it completes, every mask cell is 0
\* or 1; the cell of an evaluated voxel is 1 exactly if the probability
\* evaluated for it exceeds THRESHOLD; every other cell is still 0.
C2_MaskIsThresholdedProbability ==
  pc = "scan" =>
    /\ \A c \in ArrayShape : img3[c] \in {0, 1}
    /\ \A n \in 1..Len(calls) :
         (img3[Cell(calls[n].ijk)] = 1) <=> (calls[n].prob > THRESHOLD)
    /\ \A c \in ArrayShape :
         (\A n \in 1..Len(calls) : Cell(calls[n].ijk) # c) => img3[c] = 0

\* C2 witness: a completed scan whose mask has a voxel above the threshold,
\* an evaluated voxel below it and a cell the scan never reached
C2_Witness ==
  /\ Completed
  /\ \E n \in 1..Len(calls) : calls[n].prob > THRESHOLD /\ img3[Cell(calls[n].ijk)] = 1
  /\ \E n \in 1..Len(calls) : calls[n].prob <= THRESHOLD /\ img3[Cell(calls[n].ijk)] = 0
  /\ \E c \in ArrayShape : \A n \in 1..Len(calls) : Cell(calls[n].ijk) # c

\* C3: GetDistances returns exactly 0 when the sample point is at distance
\* <= 5 from the urethra point, and the logistic of "value" otherwise.
C3_CutoffReturnsZero ==
  fx.fn = "GetDistances" =>
    IF SqDist(fx.p, fx.Uretra) <= 25
    THEN fx.result = 0
    ELSE fx.result = Logistic(Value2(fx.Pr1, fx.Pr2, fx.p, fx.Uretra))

\* C3 witness: a call at distance exactly 5 that returned 0 although the
\* logistic of its "value" is above the threshold
C3_Witness ==
  /\ fx.fn = "GetDistances"
  /\ SqDist(fx.p, fx.Uretra) = 25
  /\ fx.result = 0
  /\ Logistic(Value2(fx.Pr1, fx.Pr2, fx.p, fx.Uretra)) > THRESHOLD

\* C4: a completed scan has evaluated every voxel of the inclusive ranges
\* lim[0]..lim[1], lim[2]..lim[3], lim[4]..lim[5] returned by getLimits.
C4_InclusiveRangesScanned ==
  Completed =>
    \A i \in lim[1]..lim[2], j \in lim[3]..lim[4], k \in lim[5]..lim[6] :
      <<i, j, k>> \in Visited

\* C5: getLimits returns the axis-wise minimum and maximum of the probes'
\* index positions, widened by (30, 30, 5), the upper bounds capped at
\* (190, 168, 19) and the lower k bound raised to at least 1.
C5_LimitsFromProbes ==
  fx.fn = "getLimits" =>
    LET X == ProbeIndex(fx.probes, fx.matrix, 1)
        Y == ProbeIndex(fx.probes, fx.matrix, 2)
        Z == ProbeIndex(fx.probes, fx.matrix, 3)
    IN fx.result = << SeqMin(X) - 30, Min2(SeqMax(X) + 30, 190),
                      SeqMin(Y) - 30, Min2(SeqMax(Y) + 30, 168),
                      Max2(SeqMin(Z) - 5, 1), Min2(SeqMax(Z) + 5, 19) >>

\* C6: a run that finds a third probe in the scene evaluates every voxel
\* with GetDistances3, a run that finds none evaluates every voxel with
\* GetDistances, whatever the number of fiducials in "IntraOpTargets".
C6_ProbeModeFollowsThirdProbe ==
  pc = "scan" =>
    \A n \in 1..Len(calls) :
      calls[n].fn = IF inp.probe3 # <<>> THEN "GetDistances3" ELSE "GetDistances"

\* C7: with fewer than 2 probe tips in the probe list the run never reaches
\* the scan and never produces output arrays.
C7_TooFewProbesIsFatal ==
  /\ pc = "scan" => Len(inp.targets) >= 2
  /\ \A r \in runs : Len(r.inp.targets) >= 2

\* C8: for every evaluated voxel the scaled-probability image holds, at
\* (k, j, i), 10 times the probability rounded to the nearest integer, and
\* the raw-probability array holds 10 times the probability.
C8_ScaledValueIsRounded ==
  pc = "scan" =>
    \A n \in 1..Len(calls) :
      LET c == Cell(calls[n].ijk)
      IN /\ c \in ImageExtent => imageData[c] = RoundOf10(calls[n].prob)
         /\ img2[c] = 10 * calls[n].prob

\* C9: the value returned by GetDistances and by GetDistances3 lies in [0,1].
C9_ProbabilityInUnitInterval ==
  fx.fn \in {"GetDistances", "GetDistances3"} => fx.result \in 0..1000

\* C10: two completed runs given the same markers, probe tips and transform
\* have produced the same mask and the same probability array.
C10_RepeatedRunsAgree ==
  \A r1 \in runs, r2 \in runs :
    r1.inp = r2.inp => (r1.mask = r2.mask /\ r1.prob = r2.prob)

\* C10 witness: two runs completed one after the other in the same scene with
\* the same inputs (both left their volumes, one record of arrays)
C10_Witness ==
  /\ pc = "idle" /\ status = "ok"
  /\ Cardinality(NodesNamed(scene, "predictedIceball")) = 2
  /\ Cardinality(NodesNamed(scene, "urethra")) = 2
  /\ Cardinality(runs) = 1

\* C11: a probe tip read from a single-point source reaches the probability
\* model with its coordinates, z included, unchanged: the first two tips of
\* "IntraOpTargets" and, in three-probe mode, the tip of "probe3".
C11_SinglePointTipsUnchanged ==
  (pc = "scan" /\ Len(inp.targets) >= 2) =>
    /\ probe1[1] = inp.targets[1]
    /\ probe2[1] = inp.targets[2]
    /\ (nofProbes = 3 => probe3[1] = inp.probe3[1])

\* C12: in any sequence of runs in one scene, the run in progress has just
\* added a 'urethra' node holding the curve resampled from its own marker
\* list, and the urethra point its scan reads for every slice index k is the
\* k-th point of that curve, whatever 'urethra' nodes earlier runs have left.
C12_ScanReadsOwnCurve ==
  pc = "scan" =>
    /\ scene[Len(scene)] = Fiducials("urethra", Resample(inp.markers))
    /\ Len(UretraMatrix) = SLICE_N
    /\ \A k \in 0..(SLICE_N - 1) : UretraMatrix[k + 1] = Resample(inp.markers)[k + 1]

\* C12 witness: a scan that has evaluated a voxel in a scene where an earlier
\* run has left a 'urethra' node with other points than this run's curve
C12_Witness ==
  /\ pc = "scan"
  /\ Len(calls) > 0
  /\ \E n \in NodesNamed(scene, "urethra") :
        scene[n].pts # Resample(inp.markers)

====
